---- MODULE Spec2Model ----
(***************************************************************************)
(* The realtime voice-session hook useGeminiLive                           *)
(* (src/hooks/use-gemini-live.ts) as a state machine: the React state      *)
(* (isConnected, messages, volume, error), the refs of the hook, the       *)
(* sessions the hook has created with the callbacks the SDK delivers on    *)
(* them, the connect() calls suspended at getUserMedia and the onmessage   *)
(* calls suspended at decodeAudioData.                                     *)
(*                                                                         *)
(* Every handler runs to its next await in one step (the event loop is     *)
(* single threaded); setState calls are applied in the order they are      *)
(* issued.  The App component (src/unnamed/part_000) that calls the hook    *)
(* is modelled by its three handlers and its restart timer.                *)
(***************************************************************************)
EXTENDS Integers, Sequences, FiniteSets, TLC

VARIABLES
    \* React state of the hook (lines 12-15)
    isConnected, messages, volume, error,
    \* refs of the hook (lines 18-28)
    inputAudioContextRef, outputAudioContextRef, mediaStreamRef,
    scriptProcessorRef, sessionPromiseRef, nextStartTimeRef, sourcesRef,
    currentInputTranscriptionRef, currentOutputTranscriptionRef,
    \* the environment the hook drives
    sessions,      \* sessions created by ai.live.connect, in creation order
    micPending,    \* connect() calls suspended at await getUserMedia
    decoding,      \* onmessage calls suspended at await decodeAudioData
    sources,       \* every AudioBufferSourceNode created, in creation order
    currentTime,   \* currentTime of the output context now held (0 if none)
    ctxCount,      \* audio-context pairs created so far
    \* the App component: its activeUniverse state (line 48) and the
    \* setTimeout callbacks of handleRestart still to run (lines 76-78)
    app,
    \* bookkeeping
    budget,        \* what the environment may still do (bounds the run)
    last,          \* the step taken last and what it did
    hist           \* the fragments that arrived since the last finalization

vars == <<isConnected, messages, volume, error,
          inputAudioContextRef, outputAudioContextRef, mediaStreamRef,
          scriptProcessorRef, sessionPromiseRef, nextStartTimeRef, sourcesRef,
          currentInputTranscriptionRef, currentOutputTranscriptionRef,
          sessions, micPending, decoding, sources, currentTime, ctxCount,
          app, budget, last, hist>>

stateVars == <<isConnected, messages, volume, error>>
refVars == <<inputAudioContextRef, outputAudioContextRef, mediaStreamRef,
             scriptProcessorRef, sessionPromiseRef, nextStartTimeRef,
             sourcesRef, currentInputTranscriptionRef,
             currentOutputTranscriptionRef>>

----------------------------------------------------------------------------
(* Bounds of the model.                                                    *)

MaxConnects == 2     \* connect() calls in a run of the lifecycle model
MaxSessions == 1     \* connect() calls in a run of the other models
MaxMsgs == 2         \* server messages in a run of the transcript model
MaxAudio == 2        \* server messages in a run of the playback model
MaxTicks == 1        \* advances of the output clock in a run
MaxDur == 1          \* longest decoded buffer, in clock units
MaxFrames == 2       \* captured frames followed to their send in a run
MaxPending == 1      \* restart timers pending at a time

\* a ref holding null, and the empty string the transcription refs start with
Null == 0
NoError == "null"

\* the scenarios of the catalog (two of the three) and no scenario
Universes == {"fantasy", "scifi"}
NoUniverse == "null"

\* loudness of a captured frame, in tenths (rms), and the gain of line 131
RmsLevels == {0, 3}
Gain == 5
FullVolume == 10

Min(a, b) == IF a < b THEN a ELSE b
Max(a, b) == IF a > b THEN a ELSE b

\* messages of thrown errors and error events: "" when e.message is empty
ErrorMessages == {"", "denied"}
\* transcript fragments (non-empty: an empty text is falsy, lines 170, 182)
Fragments == {"a", "b"}

\* a LiveServerMessage: whether it carries audio (modelTurn inlineData), the
\* text of its outputTranscription and inputTranscription ("" when absent)
\* and its turnComplete and interrupted flags
Msg(audio, out, inp, tc, intr) ==
    [audio |-> audio, out |-> out, inp |-> inp, tc |-> tc, intr |-> intr]
NoMsg == Msg(FALSE, "", "", FALSE, FALSE)

\* no run of fragments is being followed; fresh: a finalization was handled
\* and no fragment since; idle: disconnect() was called and connect() has
\* not been called since, known: the sessions that existed at that call;
\* term: a close or error event of a session the hook had not torn down was
\* handled and connect() has not been called since; out, inp: the fragments
\* of the model and of the user that arrived since the last finalization
NoRun == [role |-> "start", text |-> "", base |-> 0, fresh |-> FALSE,
          idle |-> FALSE, known |-> 0, term |-> FALSE, out |-> "",
          inp |-> ""]

----------------------------------------------------------------------------
(* Init: the hook after its first render (lines 12-28).                    *)

Start(b) ==
    /\ isConnected = FALSE
    /\ messages = <<>>
    /\ volume = 0
    /\ error = NoError
    /\ inputAudioContextRef = Null
    /\ outputAudioContextRef = Null
    /\ mediaStreamRef = Null
    /\ scriptProcessorRef = Null
    /\ sessionPromiseRef = Null
    /\ nextStartTimeRef = 0
    /\ sourcesRef = {}
    /\ currentInputTranscriptionRef = ""
    /\ currentOutputTranscriptionRef = ""
    /\ sessions = <<>>
    /\ micPending = 0
    /\ decoding = <<>>
    /\ sources = <<>>
    /\ currentTime = 0
    /\ ctxCount = 0
    /\ app = [activeUniverse |-> NoUniverse, timers |-> <<>>]
    /\ budget = b
    /\ last = [op |-> "init", ops |-> {}, m |-> NoMsg]
    /\ hist = NoRun

Init == Start([connects |-> MaxConnects, msgs |-> 0, ticks |-> 0,
              frames |-> 0])

----------------------------------------------------------------------------
(* disconnect(), lines 30-76.                                              *)

\* step 4: stop() every tracked source; stopping an ended source throws and
\* the throw is ignored
StopTracked(srcs, tracked) ==
    [i \in DOMAIN srcs |->
        IF i \in tracked /\ srcs[i].state = "scheduled"
        THEN [srcs[i] EXCEPT !.state = "stopped"]
        ELSE srcs[i]]

\* step 5: close the session of sessionPromiseRef once its handle resolves
CloseWhenResolved(ss, ref) ==
    [i \in DOMAIN ss |->
        IF i = ref THEN [ss[i] EXCEPT !.closeReq = TRUE] ELSE ss[i]]

\* the device and session operations a disconnect() performs
DisconnectOps ==
    (IF inputAudioContextRef # Null THEN {"inputContext.close"} ELSE {})
    \cup (IF outputAudioContextRef # Null THEN {"outputContext.close"} ELSE {})
    \cup (IF mediaStreamRef # Null THEN {"track.stop"} ELSE {})
    \cup (IF scriptProcessorRef # Null THEN {"processor.disconnect"} ELSE {})
    \cup (IF sourcesRef # {} THEN {"source.stop"} ELSE {})
    \cup (IF sessionPromiseRef # Null THEN {"session.close"} ELSE {})

\* disconnect() without line 68: the session promise is kept
DisconnectKeepsPromise ==
    /\ mediaStreamRef' = Null
    /\ scriptProcessorRef' = Null
    /\ sources' = StopTracked(sources, sourcesRef)
    /\ sourcesRef' = {}
    /\ sessions' = CloseWhenResolved(sessions, sessionPromiseRef)
    /\ sessionPromiseRef' = sessionPromiseRef
    /\ isConnected' = FALSE
    /\ volume' = 0
    /\ currentInputTranscriptionRef' = ""
    /\ currentOutputTranscriptionRef' = ""

\* everything disconnect() assigns; connect() goes on from here
DisconnectBody ==
    /\ mediaStreamRef' = Null
    /\ scriptProcessorRef' = Null
    /\ sources' = StopTracked(sources, sourcesRef)
    /\ sourcesRef' = {}
    /\ sessions' = CloseWhenResolved(sessions, sessionPromiseRef)
    /\ sessionPromiseRef' = Null
    /\ isConnected' = FALSE
    /\ volume' = 0
    /\ currentInputTranscriptionRef' = ""
    /\ currentOutputTranscriptionRef' = ""

Disconnect ==
    /\ DisconnectBody
    /\ inputAudioContextRef' = Null
    /\ outputAudioContextRef' = Null
    /\ currentTime' = 0
    /\ last' = [op |-> "disconnect", ops |-> DisconnectOps, m |-> NoMsg]
    /\ hist' = [hist EXCEPT !.idle = TRUE, !.known = Len(sessions)]
    /\ UNCHANGED <<messages, error, nextStartTimeRef, micPending, decoding,
                   ctxCount, budget>>

----------------------------------------------------------------------------
(* connect(), lines 78-238.                                                *)

\* lines 80-92: disconnect(), setError(null), two new audio contexts, then
\* the call is suspended at await getUserMedia
ConnectBegin ==
    /\ budget.connects > 0
    /\ budget' = [budget EXCEPT !.connects = @ - 1]
    /\ DisconnectBody
    /\ error' = NoError
    /\ ctxCount' = ctxCount + 1
    /\ inputAudioContextRef' = ctxCount + 1
    /\ outputAudioContextRef' = ctxCount + 1
    /\ currentTime' = 0
    /\ micPending' = micPending + 1
    /\ last' = [op |-> "connect", ops |-> DisconnectOps, m |-> NoMsg]
    /\ hist' = [hist EXCEPT !.idle = FALSE, !.known = 0, !.term = FALSE]
    /\ UNCHANGED <<messages, nextStartTimeRef, decoding>>

\* a session: its state, whether its promise has resolved, whether close()
\* was asked for and called, the context of its capture processor, the
\* frames its capture callback has captured, those whose send waits for the
\* promise and those handed to sendRealtimeInput, in the order of the calls
NewSession == [st |-> "connecting", resolved |-> FALSE, closeReq |-> FALSE,
               closed |-> FALSE, proc |-> Null, frames |-> 0,
               queue |-> <<>>, sent |-> <<>>]

\* lines 93-231: getUserMedia resolved; the stream is kept, the session is
\* created and its promise stored
ConnectMicOk ==
    /\ micPending > 0
    /\ micPending' = micPending - 1
    /\ mediaStreamRef' = 1
    /\ sessions' = Append(sessions, NewSession)
    /\ sessionPromiseRef' = Len(sessions) + 1
    /\ last' = [op |-> "micOk", ops |-> {}, m |-> NoMsg]
    /\ UNCHANGED <<stateVars, inputAudioContextRef, outputAudioContextRef,
                   scriptProcessorRef, nextStartTimeRef, sourcesRef,
                   currentInputTranscriptionRef,
                   currentOutputTranscriptionRef, decoding, sources,
                   currentTime, ctxCount, budget, hist>>

\* the message without its fallback
ErrTextBare(msg, fallback) == msg

\* e.message || fallback (lines 221, 235)
ErrText(msg, fallback) == IF msg = "" THEN fallback ELSE msg

\* lines 233-237: getUserMedia rejected; the catch block
ConnectFailed(msg) ==
    /\ micPending > 0
    /\ micPending' = micPending - 1
    /\ error' = ErrText(msg, "Failed to connect")
    /\ isConnected' = FALSE
    /\ last' = [op |-> "micFail", ops |-> {}, m |-> NoMsg]
    /\ UNCHANGED <<messages, volume, refVars, sessions, decoding, sources,
                   currentTime, ctxCount, budget, hist>>

ConnectMicFail == \E msg \in ErrorMessages : ConnectFailed(msg)

----------------------------------------------------------------------------
(* The callbacks of a session, lines 110-228.  The SDK delivers onopen     *)
(* once, before the session promise resolves; onerror and onclose end the  *)
(* session; a session whose close() was called still delivers what was in  *)
(* flight until its onclose.                                               *)

Live(s) == s \in DOMAIN sessions /\ sessions[s].st \in {"connecting", "open"}

\* a close or error event of session s was handled: it counts as the end of
\* the connection unless the hook itself had asked for s to be closed
Terminal(h, s) ==
    IF sessions[s].closeReq THEN h ELSE [h EXCEPT !.term = TRUE]

\* lines 111-141
OnOpen(s) ==
    /\ s \in DOMAIN sessions
    /\ sessions[s].st = "connecting"
    /\ isConnected' = TRUE
    /\ IF inputAudioContextRef = Null \/ mediaStreamRef = Null
       THEN /\ sessions' = [sessions EXCEPT ![s].st = "open"]
            /\ UNCHANGED scriptProcessorRef
       ELSE /\ sessions' = [sessions EXCEPT ![s].st = "open",
                                            ![s].proc = inputAudioContextRef]
            /\ scriptProcessorRef' = s
    /\ last' = [op |-> "open", ops |-> {}, m |-> NoMsg]
    /\ UNCHANGED <<messages, volume, error, inputAudioContextRef,
                   outputAudioContextRef, mediaStreamRef, sessionPromiseRef,
                   nextStartTimeRef, sourcesRef,
                   currentInputTranscriptionRef,
                   currentOutputTranscriptionRef, micPending, decoding,
                   sources, currentTime, ctxCount, budget, hist>>

\* the promise returned by ai.live.connect resolves with the session: the
\* then-callbacks of line 134 run in the order they were registered
Resolve(s) ==
    /\ s \in DOMAIN sessions
    /\ sessions[s].st = "open"
    /\ ~sessions[s].resolved
    /\ sessions' = [sessions EXCEPT ![s].resolved = TRUE,
                                    ![s].sent = @ \o sessions[s].queue,
                                    ![s].queue = <<>>]
    /\ last' = [op |-> "resolve", ops |-> {}, m |-> NoMsg]
    /\ UNCHANGED <<stateVars, refVars, micPending, decoding, sources,
                   currentTime, ctxCount, budget, hist>>

\* lines 63-67: the then-callback disconnect() registered calls close()
CloseThen(s) ==
    /\ s \in DOMAIN sessions
    /\ sessions[s].closeReq
    /\ sessions[s].resolved
    /\ ~sessions[s].closed
    /\ sessions' = [sessions EXCEPT ![s].closed = TRUE]
    /\ last' = [op |-> "close", ops |-> {"session.close"}, m |-> NoMsg]
    /\ UNCHANGED <<stateVars, refVars, micPending, decoding, sources,
                   currentTime, ctxCount, budget, hist>>

\* lines 219-223
OnErrorWith(s, msg) ==
    /\ Live(s)
    /\ sessions' = [sessions EXCEPT ![s].st = "errored"]
    /\ error' = ErrText(msg, "An error occurred")
    /\ isConnected' = FALSE
    /\ last' = [op |-> "error", ops |-> {}, m |-> NoMsg]
    /\ hist' = Terminal(hist, s)
    /\ UNCHANGED <<messages, volume, refVars, micPending, decoding, sources,
                   currentTime, ctxCount, budget>>

OnError(s) == \E msg \in ErrorMessages : OnErrorWith(s, msg)

\* lines 224-227
OnClose(s) ==
    /\ s \in DOMAIN sessions
    /\ sessions[s].st \in {"connecting", "open", "errored"}
    /\ sessions' = [sessions EXCEPT ![s].st = "closed"]
    /\ isConnected' = FALSE
    /\ last' = [op |-> "closed", ops |-> {}, m |-> NoMsg]
    /\ hist' = Terminal(hist, s)
    /\ UNCHANGED <<messages, volume, error, refVars, micPending, decoding,
                   sources, currentTime, ctxCount, budget>>

\* line 131: Math.min(1, rms * 5), in tenths
VolumeOf(rms) == Min(FullVolume, rms * Gain)

\* a callback that sends only once the session is there
HandIfResolved(sess, f) ==
    IF sess.resolved THEN [sess EXCEPT !.frames = f, !.sent = Append(@, f)]
    ELSE [sess EXCEPT !.frames = f]

\* lines 133-136: sessionPromise.then(send) for frame f: the send runs at
\* once in a microtask when the promise has resolved, else it waits for it
Hand(sess, f) ==
    IF sess.resolved THEN [sess EXCEPT !.frames = f, !.sent = Append(@, f)]
    ELSE [sess EXCEPT !.frames = f, !.queue = Append(@, f)]

\* lines 122-137: the capture callback of the processor onopen created for
\* session s; it runs while the input context it was created on is open.
\* The frames of a run are followed to their send as far as budget.frames
\* goes; of the frames beyond only the volume is kept.
AudioProcess(s) ==
    /\ s \in DOMAIN sessions
    /\ sessions[s].proc # Null
    /\ sessions[s].proc = inputAudioContextRef
    /\ \E rms \in RmsLevels : volume' = VolumeOf(rms)
    /\ IF budget.frames > 0
       THEN /\ budget' = [budget EXCEPT !.frames = @ - 1]
            /\ sessions' = [sessions EXCEPT
                               ![s] = Hand(@, sessions[s].frames + 1)]
       ELSE UNCHANGED <<sessions, budget>>
    /\ last' = [op |-> "frame", ops |-> {}, m |-> NoMsg]
    /\ UNCHANGED <<isConnected, messages, error, refVars, micPending,
                   decoding, sources, currentTime, ctxCount, hist>>

----------------------------------------------------------------------------
(* onmessage, lines 142-218.  A message with audio suspends its handler at *)
(* await decodeAudioData; decoding takes any time, so suspended handlers   *)
(* resume in any order, and it may throw.  Creating and starting a source  *)
(* on a context that was closed meanwhile succeeds silently.  The id and   *)
(* timestamp of a transcript message are left out.                         *)

\* an updater that does not look at the partial flag of the last message
MergeFragmentIntoLast(prev, role, buf) ==
    IF prev # <<>> /\ prev[Len(prev)].role = role
    THEN [prev EXCEPT ![Len(prev)].text = buf]
    ELSE Append(prev, [role |-> role, text |-> buf, isPartial |-> TRUE])

\* the updater of lines 172-179 and 184-191: buf is the transcription ref
\* of the role, the fragment already appended to it
MergeFragment(prev, role, buf) ==
    IF prev # <<>> /\ prev[Len(prev)].role = role /\ prev[Len(prev)].isPartial
    THEN [prev EXCEPT ![Len(prev)].text = buf]
    ELSE Append(prev, [role |-> role, text |-> buf, isPartial |-> TRUE])

\* an updater that finalizes the last message only
FinalizeLast(prev) ==
    IF prev = <<>> THEN prev
    ELSE [prev EXCEPT ![Len(prev)].isPartial = FALSE]

\* the updater of lines 197 and 214
FinalizeAll(prev) ==
    [i \in DOMAIN prev |-> [prev[i] EXCEPT !.isPartial = FALSE]]

\* lines 205-208: stop every tracked source and clear the set
InterruptSources(srcs, tracked) == StopTracked(srcs, tracked)

\* an interruption that leaves the timeline as it is
InterruptTimeKept(next) == next

\* lines 210-212: the timeline after an interruption
InterruptTime(next) ==
    IF outputAudioContextRef # Null THEN currentTime ELSE next

\* the source scheduled last is marked: an interruption was handled after it
MarkCut(srcs) ==
    IF srcs = <<>> THEN srcs ELSE [srcs EXCEPT ![Len(srcs)].cut = TRUE]

\* the handlers still suspended at their decode when message m was handled:
\* an interruption marks them, their message arrived before it
Overtaken(dec, m) ==
    IF m.intr THEN [i \in DOMAIN dec |-> [dec[i] EXCEPT !.stale = TRUE]]
    ELSE dec

HasFragment(m) == m.out # "" \/ m.inp # ""
Finalizes(m) == m.tc \/ m.intr

\* lines 169-217 for message m, from the playback state (srcs, tracked, next)
\* that the audio part of the handler left
HandleRest(m, srcs, tracked, next) ==
    LET out1  == IF m.out # "" THEN currentOutputTranscriptionRef \o m.out
                 ELSE currentOutputTranscriptionRef
        msgs1 == IF m.out # "" THEN MergeFragment(messages, "model", out1)
                 ELSE messages
        inp1  == IF m.inp # "" THEN currentInputTranscriptionRef \o m.inp
                 ELSE currentInputTranscriptionRef
        msgs2 == IF m.inp # "" THEN MergeFragment(msgs1, "user", inp1)
                 ELSE msgs1
        msgs3 == IF m.tc THEN FinalizeAll(msgs2) ELSE msgs2
        msgs4 == IF m.intr THEN FinalizeAll(msgs3) ELSE msgs3
    IN  /\ messages' = msgs4
        /\ currentOutputTranscriptionRef' = IF Finalizes(m) THEN "" ELSE out1
        /\ currentInputTranscriptionRef' = IF Finalizes(m) THEN "" ELSE inp1
        /\ sources' = IF m.intr THEN MarkCut(InterruptSources(srcs, tracked))
                      ELSE srcs
        /\ sourcesRef' = IF m.intr THEN {} ELSE tracked
        /\ nextStartTimeRef' = IF m.intr THEN InterruptTime(next) ELSE next

\* the run of fragments followed, after message m arrived: a run starts with
\* the first fragment after a finalization (or of the transcript) and goes on
\* while the fragments carry its role
Extend(h, role, text) ==
    IF h.role = "start"
    THEN [h EXCEPT !.role = role, !.text = text, !.base = Len(messages)]
    ELSE IF h.role = role THEN [h EXCEPT !.text = @ \o text]
    ELSE [h EXCEPT !.role = "mixed"]

Arrived(h, m) ==
    LET h1 == IF m.out # "" THEN Extend(h, "model", m.out) ELSE h
        h2 == IF m.inp # "" THEN Extend(h1, "user", m.inp) ELSE h1
    IN  IF Finalizes(m)
        THEN [h2 EXCEPT !.role = "start", !.text = "", !.base = 0,
                        !.out = "", !.inp = ""]
        ELSE [h2 EXCEPT !.out = @ \o m.out, !.inp = @ \o m.inp]

Handled(h, m) ==
    IF Finalizes(m) THEN [h EXCEPT !.fresh = TRUE]
    ELSE IF HasFragment(m) THEN [h EXCEPT !.fresh = FALSE]
    ELSE h

\* lines 142-149: message m arrives on session s; with audio and an output
\* context the handler is suspended at await decodeAudioData
OnMessage(s, m) ==
    /\ s \in DOMAIN sessions
    /\ sessions[s].st = "open"
    /\ budget.msgs > 0
    /\ budget' = [budget EXCEPT !.msgs = @ - 1]
    /\ IF m.audio /\ outputAudioContextRef # Null
       THEN /\ nextStartTimeRef' = Max(nextStartTimeRef, currentTime)
            /\ decoding' = Append(decoding,
                                  [m |-> m, ctx |-> outputAudioContextRef,
                                   stale |-> FALSE])
            /\ hist' = Arrived(hist, m)
            /\ last' = [op |-> "suspended", ops |-> {}, m |-> m]
            /\ UNCHANGED <<messages, currentInputTranscriptionRef,
                           currentOutputTranscriptionRef, sources,
                           sourcesRef>>
       ELSE /\ HandleRest(m, sources, sourcesRef, nextStartTimeRef)
            /\ hist' = Handled(Arrived(hist, m), m)
            /\ last' = [op |-> "message", ops |-> {}, m |-> m]
            /\ decoding' = Overtaken(decoding, m)
    /\ UNCHANGED <<isConnected, volume, error, inputAudioContextRef,
                   outputAudioContextRef, mediaStreamRef, scriptProcessorRef,
                   sessionPromiseRef, sessions, micPending, currentTime,
                   ctxCount>>

\* a timeline that is not advanced
AdvanceNot(next, dur) == next

\* line 165: the timeline after a buffer of duration dur was scheduled
Advance(next, dur) == next + dur

Remove(seq, i) == SubSeq(seq, 1, i - 1) \o SubSeq(seq, i + 1, Len(seq))

\* the source of lines 156-166: its context, the offset given to start(),
\* its duration and the clock of its context when start() was called
NewSource(ctx, start, dur) ==
    [ctx |-> ctx, start |-> start, dur |-> dur,
     at |-> IF ctx = outputAudioContextRef THEN currentTime ELSE 0,
     state |-> "scheduled", cut |-> FALSE]

\* line 164 for the suspended handler d: the start of its source, told apart
\* when an interruption was handled while d was suspended
StartOps(d) ==
    IF d.stale THEN {"source.start after interruption"} ELSE {"source.start"}

\* lines 156-217: decodeAudioData resolved for the i-th suspended handler
\* with a buffer of duration dur
Decoded(i, dur) ==
    /\ i \in DOMAIN decoding
    /\ decoding' = Overtaken(Remove(decoding, i), decoding[i].m)
    /\ HandleRest(decoding[i].m,
                  Append(sources,
                         NewSource(decoding[i].ctx, nextStartTimeRef, dur)),
                  sourcesRef \cup {Len(sources) + 1},
                  Advance(nextStartTimeRef, dur))
    /\ hist' = Handled(hist, decoding[i].m)
    /\ last' = [op |-> "decoded", ops |-> StartOps(decoding[i]),
                m |-> decoding[i].m]
    /\ UNCHANGED <<isConnected, volume, error, inputAudioContextRef,
                   outputAudioContextRef, mediaStreamRef, scriptProcessorRef,
                   sessionPromiseRef, sessions, micPending, currentTime,
                   ctxCount, budget>>

DecodeDone == \E i \in DOMAIN decoding, dur \in 1..MaxDur : Decoded(i, dur)

\* decodeAudioData (or decode) threw: onmessage has no try/catch, the
\* promise it returned rejects and the rest of the handler never runs
DecodeFailed(i) ==
    /\ i \in DOMAIN decoding
    /\ decoding' = Remove(decoding, i)
    /\ last' = [op |-> "decodeFail", ops |-> {}, m |-> decoding[i].m]
    /\ UNCHANGED <<stateVars, refVars, sessions, micPending, sources,
                   currentTime, ctxCount, budget, hist>>

DecodeFail == \E i \in DOMAIN decoding : DecodeFailed(i)

\* lines 160-162: a source that played to its end leaves the tracked set
Ended(u) ==
    /\ u \in DOMAIN sources
    /\ sources[u].state = "scheduled"
    /\ sources[u].ctx = outputAudioContextRef
    /\ currentTime >= Max(sources[u].start, sources[u].at) + sources[u].dur
    /\ sources' = [sources EXCEPT ![u].state = "ended"]
    /\ sourcesRef' = sourcesRef \ {u}
    /\ last' = [op |-> "ended", ops |-> {}, m |-> NoMsg]
    /\ UNCHANGED <<stateVars, inputAudioContextRef, outputAudioContextRef,
                   mediaStreamRef, scriptProcessorRef, sessionPromiseRef,
                   nextStartTimeRef, currentInputTranscriptionRef,
                   currentOutputTranscriptionRef, sessions, micPending,
                   decoding, currentTime, ctxCount, budget, hist>>

SourceEnded == \E u \in DOMAIN sources : Ended(u)

\* the clock of the output context advances
Tick ==
    /\ outputAudioContextRef # Null
    /\ budget.ticks > 0
    /\ budget' = [budget EXCEPT !.ticks = @ - 1]
    /\ currentTime' = currentTime + 1
    /\ last' = [op |-> "tick", ops |-> {}, m |-> NoMsg]
    /\ UNCHANGED <<stateVars, refVars, sessions, micPending, decoding,
                   sources, ctxCount, hist>>

----------------------------------------------------------------------------
(* The lifecycle model: connect() and disconnect() called at any time,     *)
(* against the callbacks of every session created.                         *)

Next ==
    \/ ConnectBegin /\ UNCHANGED app
    \/ ConnectMicOk /\ UNCHANGED app
    \/ ConnectMicFail /\ UNCHANGED app
    \/ Disconnect /\ UNCHANGED app
    \/ \E s \in DOMAIN sessions : OnOpen(s) /\ UNCHANGED app
    \/ \E s \in DOMAIN sessions : Resolve(s) /\ UNCHANGED app
    \/ \E s \in DOMAIN sessions : CloseThen(s) /\ UNCHANGED app
    \/ \E s \in DOMAIN sessions : OnError(s) /\ UNCHANGED app
    \/ \E s \in DOMAIN sessions : OnClose(s) /\ UNCHANGED app
    \/ \E s \in DOMAIN sessions : AudioProcess(s) /\ UNCHANGED app

Spec == Init /\ [][Next]_vars

----------------------------------------------------------------------------
(* The transcript model: one connect() after another, each session opened, *)
(* disconnect() at any time, and messages that carry transcript fragments, *)
(* turn-complete or interruption, on any open session.                     *)

\* a message with one part, with a fragment of each role, or with a
\* fragment and turn-complete
TextMsgs ==
    {Msg(FALSE, o, "", FALSE, FALSE) : o \in Fragments}
    \cup {Msg(FALSE, "", i, FALSE, FALSE) : i \in Fragments}
    \cup {Msg(FALSE, "", "", TRUE, FALSE), Msg(FALSE, "", "", FALSE, TRUE)}
    \cup {Msg(FALSE, "a", "b", FALSE, FALSE), Msg(FALSE, "a", "", TRUE, FALSE)}

\* messages whose handler is suspended on its audio before the rest is handled
SpokenMsgs ==
    {Msg(TRUE, "a", "", FALSE, FALSE), Msg(TRUE, "", "", TRUE, FALSE)}

InitTranscript ==
    Start([connects |-> MaxSessions, msgs |-> MaxMsgs, ticks |-> 0,
           frames |-> 0])

NextTranscript ==
    \/ ConnectBegin /\ UNCHANGED app
    \/ ConnectMicOk /\ UNCHANGED app
    \/ Disconnect /\ UNCHANGED app
    \/ \E s \in DOMAIN sessions : OnOpen(s) /\ UNCHANGED app
    \/ \E s \in DOMAIN sessions, m \in TextMsgs : OnMessage(s, m) /\ UNCHANGED app
    \/ \E s \in DOMAIN sessions, m \in SpokenMsgs : OnMessage(s, m) /\ UNCHANGED app
    \/ \E i \in DOMAIN decoding : Decoded(i, 1) /\ UNCHANGED app
    \/ DecodeFail /\ UNCHANGED app

SpecTranscript == InitTranscript /\ [][NextTranscript]_vars

\* the same without audio: every message is handled when it arrives
NextText ==
    \/ ConnectBegin /\ UNCHANGED app
    \/ ConnectMicOk /\ UNCHANGED app
    \/ Disconnect /\ UNCHANGED app
    \/ \E s \in DOMAIN sessions : OnOpen(s) /\ UNCHANGED app
    \/ \E s \in DOMAIN sessions, m \in TextMsgs : OnMessage(s, m) /\ UNCHANGED app

SpecText == InitTranscript /\ [][NextText]_vars

----------------------------------------------------------------------------
(* The playback model: audio and interruption messages on any open         *)
(* session, decoding that takes any time and ends in any order, the output *)
(* clock advancing, sources playing to their end, disconnect() at any      *)
(* time.                                                                   *)

AudioMsgs ==
    {Msg(TRUE, "", "", FALSE, FALSE), Msg(FALSE, "", "", FALSE, TRUE),
     Msg(TRUE, "", "", FALSE, TRUE)}

InitPlayback ==
    Start([connects |-> MaxSessions, msgs |-> MaxAudio, ticks |-> MaxTicks,
           frames |-> 0])

NextPlayback ==
    \/ ConnectBegin /\ UNCHANGED app
    \/ ConnectMicOk /\ UNCHANGED app
    \/ Disconnect /\ UNCHANGED app
    \/ \E s \in DOMAIN sessions : OnOpen(s) /\ UNCHANGED app
    \/ \E s \in DOMAIN sessions, m \in AudioMsgs : OnMessage(s, m) /\ UNCHANGED app
    \/ DecodeDone /\ UNCHANGED app
    \/ DecodeFail /\ UNCHANGED app
    \/ SourceEnded /\ UNCHANGED app
    \/ Tick /\ UNCHANGED app

SpecPlayback == InitPlayback /\ [][NextPlayback]_vars

\* the same over several connect() calls: a session that played audio is
\* followed by another one
InitReconnect ==
    Start([connects |-> MaxConnects, msgs |-> MaxAudio, ticks |-> MaxTicks,
           frames |-> 0])

NextReconnect ==
    \/ ConnectBegin /\ UNCHANGED app
    \/ ConnectMicOk /\ UNCHANGED app
    \/ Disconnect /\ UNCHANGED app
    \/ \E s \in DOMAIN sessions : OnOpen(s) /\ UNCHANGED app
    \/ \E s \in DOMAIN sessions, m \in AudioMsgs :
          OnMessage(s, m) /\ UNCHANGED app
    \/ DecodeDone /\ UNCHANGED app
    \/ Tick /\ UNCHANGED app

SpecReconnect == InitReconnect /\ [][NextReconnect]_vars

----------------------------------------------------------------------------
(* The capture model: sessions opened one after another, their promises    *)
(* resolving after the open event, frames captured before and after that,  *)
(* error and close events and disconnect() at any time.                    *)

InitCapture ==
    Start([connects |-> MaxSessions, msgs |-> 0, ticks |-> 0,
           frames |-> MaxFrames])

NextCapture ==
    \/ ConnectBegin /\ UNCHANGED app
    \/ ConnectMicOk /\ UNCHANGED app
    \/ Disconnect /\ UNCHANGED app
    \/ \E s \in DOMAIN sessions : OnOpen(s) /\ UNCHANGED app
    \/ \E s \in DOMAIN sessions : Resolve(s) /\ UNCHANGED app
    \/ \E s \in DOMAIN sessions : CloseThen(s) /\ UNCHANGED app
    \/ \E s \in DOMAIN sessions : OnError(s) /\ UNCHANGED app
    \/ \E s \in DOMAIN sessions : OnClose(s) /\ UNCHANGED app
    \/ \E s \in DOMAIN sessions : AudioProcess(s) /\ UNCHANGED app

SpecCapture == InitCapture /\ [][NextCapture]_vars

----------------------------------------------------------------------------
(* The App component, src/unnamed/part_000 lines 47-80: the scenario       *)
(* picker is shown while activeUniverse is null (line 83), the Restart and *)
(* Exit buttons while it is not (lines 129-155).                           *)

\* lines 58-64: setActiveUniverse(universe), then connect() up to its await
HandleStartGame(u) ==
    /\ ConnectBegin
    /\ app' = [app EXCEPT !.activeUniverse = u]

\* line 100: the user picks scenario u
SelectScenario(u) ==
    /\ app.activeUniverse = NoUniverse
    /\ HandleStartGame(u)

\* lines 66-69
HandleEndGame ==
    /\ app.activeUniverse # NoUniverse
    /\ Disconnect
    /\ app' = [app EXCEPT !.activeUniverse = NoUniverse]

\* lines 71-80: disconnect() and a timer that holds the scenario of this
\* render
HandleRestart ==
    /\ app.activeUniverse # NoUniverse
    /\ Len(app.timers) < MaxPending
    /\ Disconnect
    /\ app' = [app EXCEPT !.timers = Append(@, app.activeUniverse)]

\* lines 76-78: the grace delay is over for the oldest timer
TimerFires ==
    /\ app.timers # <<>>
    /\ ConnectBegin
    /\ app' = [activeUniverse |-> Head(app.timers),
               timers |-> Tail(app.timers)]

InitApp ==
    Start([connects |-> MaxConnects, msgs |-> 0, ticks |-> 0, frames |-> 0])

NextApp ==
    \/ \E u \in Universes : SelectScenario(u)
    \/ HandleEndGame
    \/ HandleRestart
    \/ TimerFires
    \/ ConnectMicOk /\ UNCHANGED app
    \/ \E s \in DOMAIN sessions : OnOpen(s) /\ UNCHANGED app
    \/ \E s \in DOMAIN sessions : Resolve(s) /\ UNCHANGED app
    \/ \E s \in DOMAIN sessions : CloseThen(s) /\ UNCHANGED app
    \/ \E s \in DOMAIN sessions : OnClose(s) /\ UNCHANGED app

SpecApp == InitApp /\ [][NextApp]_vars

----------------------------------------------------------------------------
(* Claims on the lifecycle.                                                *)

OpenSessions ==
    {s \in DOMAIN sessions : sessions[s].st = "open" /\ ~sessions[s].closeReq
                             /\ ~sessions[s].closed}

\* C1: at most one session is open at any time: there are never two
\* sessions created by connect() that are both open and that the program
\* has not closed (nor asked to close), whatever the interleaving of
\* connect(), disconnect() and remote events.
AtMostOneOpenSession == Cardinality(OpenSessions) <= 1

\* C2: once disconnect() has been called and until the next connect(), the
\* program holds no microphone stream, no audio context, no capture
\* processor and no tracked playback unit, every session created before the
\* call that is still live has its close() requested, and isConnected is
\* false.
DisconnectReleasesAll ==
    hist.idle =>
        /\ mediaStreamRef = Null
        /\ inputAudioContextRef = Null
        /\ outputAudioContextRef = Null
        /\ scriptProcessorRef = Null
        /\ sourcesRef = {}
        /\ \A s \in 1..hist.known : Live(s) => sessions[s].closeReq
        /\ isConnected = FALSE

\* C3: a disconnect() called right after another disconnect(), or before any
\* connect(), performs no context close, no track stop, no processor
\* disconnect, no source stop and no session close, and leaves the state of
\* the hook as it was.
DisconnectIdempotent ==
    [][(last.op \in {"init", "disconnect"} /\ last'.op = "disconnect")
        => /\ last'.ops = {}
           /\ UNCHANGED <<stateVars, refVars, sessions, sources, decoding,
                          micPending>>]_vars

\* C3, its case: a second disconnect() in a row, after a connect() had
\* acquired contexts and a session
SecondDisconnect ==
    /\ last.op = "disconnect"
    /\ last.ops = {}
    /\ hist.known > 0
    /\ inputAudioContextRef = Null

\* C11: isConnected becomes true only in the step that handles a remote open
\* event, never in a step of connect(); and once a close or error event
\* has been handled it does not become true again before connect() is called
\* again.
OpenOnlyByOpenEvent ==
    [][(isConnected' /\ ~isConnected)
        => (last'.op = "open" /\ ~hist.term)]_vars

FirstFrames(n) == [i \in 1..n |-> i]

\* C18: the frames a capture callback captured are handed to its session in
\* capture order and each once: the frames handed to sendRealtimeInput,
\* followed by those whose send waits for the session promise, are the
\* frames captured, in capture order; none waits once the promise has
\* resolved.
FramesSentInOrder ==
    \A s \in DOMAIN sessions :
        /\ sessions[s].sent \o sessions[s].queue
              = FirstFrames(sessions[s].frames)
        /\ sessions[s].resolved => sessions[s].queue = <<>>

\* C18, its case: the promise of a session resolved and the frames captured
\* before that were sent then
FramesSentAtResolve ==
    /\ last.op = "resolve"
    /\ \E s \in DOMAIN sessions :
          sessions[s].resolved /\ Len(sessions[s].sent) >= 2

\* C19: an open, close or error event of a session that connect() or
\* disconnect() has torn down (its close was asked for), delivered while the
\* hook holds a session established afterwards, changes neither isConnected
\* nor error, nor the transcript, nor the playback state.
StaleEventsIgnored ==
    [][\A s \in DOMAIN sessions :
          (/\ sessions[s].closeReq
           /\ sessions'[s].st # sessions[s].st
           /\ sessionPromiseRef \notin {Null, s})
              => UNCHANGED <<isConnected, error, messages, sourcesRef,
                             nextStartTimeRef>>]_vars

\* C20: once the user has left the game (no scenario is active) no scenario
\* becomes active and no connect() is started until the user selects a
\* scenario again, also when a restart was requested shortly before; and
\* every restart timer connects with the scenario that was active at the
\* restart, once.
ExitEndsTheGame ==
    [][app.activeUniverse = NoUniverse
        => /\ app'.activeUniverse # NoUniverse => app'.timers = app.timers
           /\ last'.op = "connect" => app'.timers = app.timers]_vars

\* C22: close and error are terminal for capture: once the close or error
\* event of a session has been handled, its capture callback hands no
\* further frame to it (nothing is added to what was sent) and captures no
\* further frame to set the volume from.
CaptureEndsWithSession ==
    [][\A s \in DOMAIN sessions :
          sessions[s].st \in {"errored", "closed"}
              => /\ sessions'[s].sent = sessions[s].sent
                 /\ sessions'[s].frames = sessions[s].frames]_vars

\* C9: when connect() fails to acquire the microphone or the remote service
\* reports an error, one non-empty error message is set and isConnected is
\* false afterwards, and the failure starts no connect(): no audio context
\* is created, no getUserMedia is awaited and no session is opened by it.
FailureSurfacedOnce ==
    /\ [](last.op \in {"micFail", "error"}
            => error \notin {NoError, ""} /\ isConnected = FALSE)
    /\ [][last'.op \in {"micFail", "error"}
            => /\ ctxCount' = ctxCount
               /\ micPending' <= micPending
               /\ Len(sessions') = Len(sessions)]_vars

\* C9, its cases: a microphone failure with an empty message while another
\* session is connected, and an error event of an open session
MicFailureSeen ==
    /\ last.op = "micFail"
    /\ error = "Failed to connect"
    /\ \E s \in DOMAIN sessions : sessions[s].st = "open"

----------------------------------------------------------------------------
(* Claims on the transcript.                                               *)

LastMessage == messages[Len(messages)]
AllFinal == \A i \in DOMAIN messages : ~messages[i].isPartial
Partials(role) ==
    {i \in DOMAIN messages : messages[i].role = role /\ messages[i].isPartial}
HandledNow(l) == l.op \in {"message", "decoded"}

\* C4: for a sequence of fragments that all carry the same role, with no
\* turn-complete or interruption in between, the transcript gains exactly
\* one message; it is partial and its text is the concatenation of the
\* fragments in arrival order.  (Stated for the runs that start the
\* transcript or follow a finalization, once every message that arrived has
\* been handled.)
OneMessagePerRun ==
    (hist.role \in {"user", "model"} /\ decoding = <<>>)
        => /\ Len(messages) = hist.base + 1
           /\ LastMessage = [role |-> hist.role, text |-> hist.text,
                             isPartial |-> TRUE]

\* C5: after a turn-complete or interruption message has been handled every
\* message of the transcript is final and both transcription buffers are
\* empty; the next fragment handled, of either role, appends to the
\* transcript and changes no message that was there.
FinalizedThenFresh ==
    /\ []((HandledNow(last) /\ Finalizes(last.m))
            => /\ AllFinal
               /\ currentInputTranscriptionRef = ""
               /\ currentOutputTranscriptionRef = "")
    /\ [][(hist.fresh /\ HandledNow(last') /\ HasFragment(last'.m))
            => /\ Len(messages') > Len(messages)
               /\ SubSeq(messages', 1, Len(messages)) = messages]_vars

\* C5, its case: a fragment handled after a finalization started a message
\* of its own although the message before it has the same role
FreshMessageAfterFinal ==
    /\ HandledNow(last)
    /\ HasFragment(last.m)
    /\ Len(messages) >= 2
    /\ LastMessage.isPartial
    /\ ~messages[Len(messages) - 1].isPartial
    /\ messages[Len(messages) - 1].role = LastMessage.role

\* C6: in every reachable state the transcript holds at most one partial
\* message per speaker role.
OnePartialPerRole ==
    \A role \in {"user", "model"} : Cardinality(Partials(role)) <= 1

\* the texts of the messages of a role in msgs that are still partial, one
\* after the other in transcript order
RECURSIVE PartialText(_, _)
PartialText(msgs, role) ==
    IF msgs = <<>> THEN ""
    ELSE (IF msgs[1].role = role /\ msgs[1].isPartial THEN msgs[1].text
          ELSE "") \o PartialText(Tail(msgs), role)

\* C14: between two finalizations, for each role the texts of the messages
\* of that role created since the last finalization (the partial ones: every
\* message is handled when it arrives), in transcript order, make up the
\* fragments of that role in arrival order; nothing is duplicated or lost.
FragmentsKeptOnce ==
    /\ PartialText(messages, "model") = hist.out
    /\ PartialText(messages, "user") = hist.inp

\* the fragment of a role that message m carries ("" when it carries none)
FragmentOf(m, role) == IF role = "model" THEN m.out ELSE m.inp

\* C15: the text of a message of the transcript only ever changes by having
\* a fragment appended: in the step that changes it a message was handled
\* and the new text is the previous text followed by the fragment of that
\* role the message carried; across any operations, disconnect() included.
TextOnlyAppended ==
    [][\A i \in DOMAIN messages :
          (i \in DOMAIN messages' /\ messages'[i].text # messages[i].text)
              => /\ HandledNow(last')
                 /\ messages'[i].text =
                       messages[i].text \o FragmentOf(last'.m, messages[i].role)
      ]_vars

\* C16: the transcript is an append-only log: no step removes a message or
\* moves one, the role of a message never changes, only the message that
\* was last may get another text, and a message that is final keeps its text
\* and its flag for good.
TranscriptAppendOnly ==
    [][/\ Len(messages') >= Len(messages)
       /\ \A i \in DOMAIN messages :
             /\ messages'[i].role = messages[i].role
             /\ i < Len(messages) => messages'[i].text = messages[i].text
             /\ ~messages[i].isPartial => messages'[i] = messages[i]]_vars

\* C16, its case: a message was finalized and two messages, one of each
\* role, were appended behind it and are partial
AppendedBehindFinal ==
    /\ Len(messages) = 3
    /\ ~messages[1].isPartial
    /\ messages[2].isPartial /\ messages[3].isPartial
    /\ messages[2].role # messages[3].role

\* C13: messages take effect in arrival order: when the transcript parts
\* of a message are applied, no message that arrived before it is still
\* waiting for its audio to be decoded (the handlers still suspended after
\* the step are those that were suspended behind the one that resumed).
EffectsInArrivalOrder ==
    [][HandledNow(last')
        => \A j \in DOMAIN decoding' :
              /\ j + 1 \in DOMAIN decoding
              /\ decoding'[j].m = decoding[j + 1].m]_vars

----------------------------------------------------------------------------
(* Claims on playback.                                                     *)

Consecutive == 1..(Len(sources) - 1)
StartsAfter(i) ==
    sources[i + 1].start >= sources[i].start + sources[i].dur

\* C7 as claimed: for any two units A then B scheduled consecutively, B's
\* start time is at least A's start time plus A's duration.
NoOverlap == \A i \in Consecutive : StartsAfter(i)

\* C7 as amended: for any two units A then B scheduled consecutively with
\* no interruption handled between the scheduling of A and that of B, B's
\* start time is at least A's start time plus A's duration.
NoOverlapUnlessInterrupted ==
    \A i \in Consecutive : ~sources[i].cut => StartsAfter(i)

\* C7, its case: two units scheduled one after the other, no interruption
\* in between, the second decoded while the first was scheduled
TwoUnitsInARow ==
    /\ Len(sources) >= 2
    /\ ~sources[1].cut
    /\ sources[2].start = sources[1].start + sources[1].dur

\* C8: handling an interruption stops every playback unit tracked at that
\* moment, leaves the tracked set empty and sets nextStartTime to the
\* current time of the output context the hook holds.
InterruptionClears ==
    [][(HandledNow(last') /\ last'.m.intr)
        => /\ sourcesRef' = {}
           /\ \A u \in DOMAIN sources' :
                (u \in sourcesRef \/ u \notin DOMAIN sources)
                    => sources'[u].state # "scheduled"
           /\ outputAudioContextRef' # Null
                => nextStartTimeRef' = currentTime']_vars

\* C8, its case: an interruption stopped a unit that was scheduled ahead
InterruptionStoppedUnit ==
    /\ HandledNow(last)
    /\ last.m.intr
    /\ outputAudioContextRef # Null
    /\ \E u \in DOMAIN sources :
          /\ sources[u].state = "stopped"
          /\ sources[u].start + sources[u].dur > currentTime
    /\ nextStartTimeRef = currentTime

\* C12: once an interruption has been handled, no unit carried by a message
\* that arrived before that interruption is started or tracked, also when
\* the audio of that message was still being decoded when the interruption
\* arrived.
NoUnitFromBeforeInterruption ==
    last.op = "decoded" => "source.start after interruption" \notin last.ops

\* C17: the start time passed to source.start is never earlier than the
\* clock of the output context at the moment start is called, however long
\* the decoding of the unit took.
StartNotInThePast ==
    \A u \in DOMAIN sources : sources[u].start >= sources[u].at

\* C21: the timeline does not carry over between sessions: when the first
\* unit of an output context is scheduled, the hook holding that context,
\* no other handler being suspended and every unit of the contexts before
\* having been stopped by the disconnect or having ended, its start offset
\* does not lie beyond the clock of that context (it is not an offset left
\* behind by the session before).
FirstUnitAtClock ==
    [][(/\ last'.op = "decoded"
        /\ Len(decoding) = 1
        /\ decoding[1].ctx = outputAudioContextRef
        /\ \A v \in DOMAIN sources :
              /\ sources[v].ctx # outputAudioContextRef
              /\ sources[v].state # "scheduled")
        => sources'[Len(sources')].start <= currentTime]_vars

\* C10: a decode failure on an incoming audio payload sets an error message
\* and moves the session to disconnected.
DecodeFailureSurfaced ==
    last.op = "decodeFail" => (error # NoError /\ isConnected = FALSE)

====
